---- MODULE Spec2Model ----
(***************************************************************************)
(* A model of the back-testing ledger (src/src/account.rs), of the run     *)
(* loop that drives it, of the traders' decision rule (src/src/traders)    *)
(* and of the five concurrent runs of backtest and main (src/src/main.rs). *)
(*                                                                         *)
(* Numbers.  The program computes in f64.  A value is modelled as a pair   *)
(* <<n, d>>: d > 0 is the finite number n/d in lowest terms, and d = 0 is  *)
(* one of the IEEE-754 special values: <<1, 0>> = +inf, <<-1, 0>> = -inf,  *)
(* <<0, 0>> = NaN.  The four operators follow IEEE-754 on the specials     *)
(* (x/0, inf-inf, 0*inf, NaN propagation); on finite values they are exact *)
(* (rounding and the sign of zero are not modelled).                       *)
(***************************************************************************)
EXTENDS Integers, Sequences, FiniteSets, TLC

VARIABLES
    available_fund,          \* Account.available_fund
    position,                \* Account.position: [quantity, cost]
    profit_and_loss_history, \* Account.profit_and_loss_history: Seq of TimeValue
    trade_history,           \* Account.trade_history: Seq of Trade
    init_args,               \* the arguments Account::new was called with
    calls,                   \* the calls made on the account so far, with their results
    klines,                  \* the bar sequence a strategy run is given
    trader,                  \* the run's trader: the strategy's name, "none" before it is built
    pc,                      \* where the run is: "api" (no run), "trader", "step", "mtm", "done"
    idx,                     \* loop_kline: the index of the bar being processed
    outcome,                 \* the run's result: "running", "Ok" (the account) or "Err"
    decide_signals,          \* the signal list handed to a trader's determine_trade
    decision,                \* what determine_trade returned: "none" before the call
    tasks,                   \* backtest: the five spawned runs, by strategy name
    main_pc,                 \* where main is: "idle", "spawn", "join", "log", "done"
    result,                  \* the tuple backtest returns: one outcome per strategy
    logged,                  \* the strategies whose final snapshot main has logged
    main_ret,                \* what main returned: "none", "Ok" or "Err"
    first_done,              \* the strategy whose run ended first, "none" before
    task_inputs,             \* per run: what its own trader and indicator gave it so far
    indicators,              \* the DCA, SMA and SMA2 indicator instances fed bar by bar
    emitted,                 \* per indicator: the action emitted for each bar fed
    policy                   \* the stake size and trading fee a trader is constructed with

account_vars == <<available_fund, position, profit_and_loss_history, trade_history>>
run_vars == <<klines, trader, pc, idx, outcome>>
decide_vars == <<decide_signals, decision>>
backtest_vars == <<tasks, main_pc, result, logged, main_ret, first_done, task_inputs>>
signal_vars == <<indicators, emitted>>
vars == <<available_fund, position, profit_and_loss_history, trade_history, init_args, calls,
          klines, trader, pc, idx, outcome, decide_signals, decision,
          tasks, main_pc, result, logged, main_ret, first_done, task_inputs,
          indicators, emitted, policy>>

----------------------------------------------------------------------------
(* Bounds of the model *)

\* the longest sequence of calls made on one account by a free caller
MaxOps == 3

\* the longest bar sequence a run is given
MaxBars == 2

\* the longest bar sequence the five concurrent runs of backtest are given
MaxFeed == 2

\* the longest bar sequence fed to the signal sources
MaxSignalBars == 3

----------------------------------------------------------------------------
(* f64 arithmetic *)

Abs(x) == IF x < 0 THEN -x ELSE x

Sgn(x) == IF x < 0 THEN -1 ELSE IF x > 0 THEN 1 ELSE 0

RECURSIVE GCD(_, _)
GCD(a, b) == IF b = 0 THEN a ELSE GCD(b, a % b)

\* the value n/d, d possibly negative or zero (n/0 is an infinity or NaN)
Norm(n, d) ==
    IF d = 0 THEN <<Sgn(n), 0>>
    ELSE LET g == GCD(Abs(n), Abs(d))
             s == IF d < 0 THEN -1 ELSE 1
         IN  <<(s * n) \div g, (s * d) \div g>>

Num(n) == <<n, 1>>
Zero == <<0, 1>>
NaN == <<0, 0>>
PInf == <<1, 0>>
NInf == <<-1, 0>>

IsFinite(x) == x[2] > 0
IsNaN(x) == x = NaN
IsInf(x) == x[2] = 0 /\ x[1] # 0

F64Neg(x) == <<-x[1], x[2]>>

F64Add(x, y) ==
    IF IsNaN(x) \/ IsNaN(y) THEN NaN
    ELSE IF IsInf(x) /\ IsInf(y) THEN (IF x = y THEN x ELSE NaN)
    ELSE IF IsInf(x) THEN x
    ELSE IF IsInf(y) THEN y
    ELSE LET g == GCD(x[2], y[2])       \* over the least common denominator
         IN  Norm(x[1] * (y[2] \div g) + y[1] * (x[2] \div g), (x[2] \div g) * y[2])

F64Sub(x, y) == F64Add(x, F64Neg(y))

F64Mul(x, y) ==
    IF IsNaN(x) \/ IsNaN(y) THEN NaN
    ELSE IF IsInf(x) \/ IsInf(y)
         THEN <<Sgn(x[1]) * Sgn(y[1]), 0>>      \* 0 * inf = NaN
    ELSE LET g1 == GCD(Abs(x[1]), y[2])  \* cancelled before multiplying
             g2 == GCD(Abs(y[1]), x[2])
         IN  Norm((x[1] \div g1) * (y[1] \div g2), (x[2] \div g2) * (y[2] \div g1))

F64Div(x, y) ==
    IF IsNaN(x) \/ IsNaN(y) THEN NaN
    ELSE IF IsInf(x) /\ IsInf(y) THEN NaN
    ELSE IF IsInf(y) THEN Zero
    ELSE IF IsInf(x) THEN (IF y[1] < 0 THEN F64Neg(x) ELSE x)
    ELSE IF y[1] = 0 THEN <<Sgn(x[1]), 0>>       \* x/0 = +-inf, 0/0 = NaN
    ELSE F64Mul(x, Norm(y[2], y[1]))

\* x < y on finite values
F64Less(x, y) == IsFinite(x) /\ IsFinite(y) /\ x[1] * y[2] < y[1] * x[2]

----------------------------------------------------------------------------
(* The inputs of the calls *)

Timestamps == {1, 2}
Quantities == {Num(0), Num(50), Num(100)}
\* the market: the price a call made at a timestamp is given
Quotes == {[timestamp |-> 1, price |-> Num(10)], [timestamp |-> 2, price |-> Num(20)]}
Fees == {Norm(2, 100)}
Funds == {Num(1000)}
Positions == {[quantity |-> Num(0), cost |-> Num(0)], [quantity |-> Num(100), cost |-> Num(10)]}

----------------------------------------------------------------------------
(* Account *)

TimeValue(timestamp, realised_pnl, unrealised_pnl) ==
    [timestamp |-> timestamp, realised_pnl |-> realised_pnl, unrealised_pnl |-> unrealised_pnl]

Trade(timestamp, buy_sell_indicator, quantity, price, fee) ==
    [timestamp |-> timestamp, buy_sell_indicator |-> buy_sell_indicator,
     quantity |-> quantity, price |-> price, fee |-> fee]

Call(op, timestamp, quantity, price, fee, ret) ==
    [op |-> op, timestamp |-> timestamp, quantity |-> quantity, price |-> price,
     fee |-> fee, ret |-> ret]

Last(s) == s[Len(s)]

\* mutant: Account::new leaves the PnL history empty
new_without_seed(fund, initial_position, start_timestamp) ==
    /\ available_fund = fund
    /\ position = initial_position
    /\ profit_and_loss_history = <<>>
    /\ trade_history = <<>>
    /\ init_args = [fund |-> fund, position |-> initial_position,
                    start_timestamp |-> start_timestamp]
    /\ calls = <<>>

\* Account::new
new(fund, initial_position, start_timestamp) ==
    /\ available_fund = fund
    /\ position = initial_position
    /\ profit_and_loss_history = <<TimeValue(start_timestamp, Zero, Zero)>>
    /\ trade_history = <<>>
    /\ init_args = [fund |-> fund, position |-> initial_position,
                    start_timestamp |-> start_timestamp]
    /\ calls = <<>>

\* mutant: the average is taken after the quantity has been added to the position
average_cost_after_add(quantity, price) ==
    LET held == F64Add(position.quantity, quantity)
    IN  F64Div(F64Add(F64Mul(held, position.cost), F64Mul(quantity, price)),
               F64Add(held, quantity))

\* Account::average_cost, on the position as it is when called
average_cost(quantity, price) ==
    F64Div(F64Add(F64Mul(position.quantity, position.cost), F64Mul(quantity, price)),
           F64Add(position.quantity, quantity))

\* mutant: open records a valuation snapshot too
open_pushes_snapshot(timestamp, quantity, price, fee) ==
    /\ position' = [cost |-> average_cost(quantity, price),
                    quantity |-> F64Add(position.quantity, quantity)]
    /\ available_fund' = F64Sub(available_fund, F64Add(F64Mul(price, quantity), fee))
    /\ trade_history' = Append(trade_history, Trade(timestamp, "Buy", quantity, price, fee))
    /\ profit_and_loss_history' =
           Append(profit_and_loss_history, TimeValue(timestamp, Zero, Zero))
    /\ calls' = Append(calls, Call("open", timestamp, quantity, price, fee, "unit"))

\* mutant: open does not charge the fee
open_without_fee(timestamp, quantity, price, fee) ==
    /\ position' = [cost |-> average_cost(quantity, price),
                    quantity |-> F64Add(position.quantity, quantity)]
    /\ available_fund' = F64Sub(available_fund, F64Mul(price, quantity))
    /\ trade_history' = Append(trade_history, Trade(timestamp, "Buy", quantity, price, fee))
    /\ UNCHANGED profit_and_loss_history
    /\ calls' = Append(calls, Call("open", timestamp, quantity, price, fee, "unit"))

\* Account::open: returns nothing, has no failure path
open(timestamp, quantity, price, fee) ==
    /\ position' = [cost |-> average_cost(quantity, price),
                    quantity |-> F64Add(position.quantity, quantity)]
    /\ available_fund' = F64Sub(available_fund, F64Add(F64Mul(price, quantity), fee))
    /\ trade_history' = Append(trade_history, Trade(timestamp, "Buy", quantity, price, fee))
    /\ UNCHANGED profit_and_loss_history
    /\ calls' = Append(calls, Call("open", timestamp, quantity, price, fee, "unit"))

\* mutant: close takes its fee out of the realised profit
close_body_fee_in_pnl(timestamp, quantity, price, fee) ==
    LET last_pnl == Last(profit_and_loss_history)
        current_pnl == F64Sub(F64Mul(quantity, F64Sub(price, position.cost)), fee)
    IN  /\ profit_and_loss_history' =
               Append(profit_and_loss_history,
                      TimeValue(timestamp, F64Add(last_pnl.realised_pnl, current_pnl),
                                F64Sub(last_pnl.unrealised_pnl, current_pnl)))
        /\ position' = [position EXCEPT !.quantity = F64Sub(@, quantity)]
        /\ available_fund' = F64Add(available_fund, F64Sub(F64Mul(price, quantity), fee))
        /\ trade_history' = Append(trade_history, Trade(timestamp, "Sell", quantity, price, fee))
        /\ calls' = Append(calls, Call("close", timestamp, quantity, price, fee, "Ok"))

\* mutant: close records its trade as a Buy
close_body_records_buy(timestamp, quantity, price, fee) ==
    LET last_pnl == Last(profit_and_loss_history)
        current_pnl == F64Mul(quantity, F64Sub(price, position.cost))
    IN  /\ profit_and_loss_history' =
               Append(profit_and_loss_history,
                      TimeValue(timestamp, F64Add(last_pnl.realised_pnl, current_pnl),
                                F64Sub(last_pnl.unrealised_pnl, current_pnl)))
        /\ position' = [position EXCEPT !.quantity = F64Sub(@, quantity)]
        /\ available_fund' = F64Add(available_fund, F64Sub(F64Mul(price, quantity), fee))
        /\ trade_history' = Append(trade_history, Trade(timestamp, "Buy", quantity, price, fee))
        /\ calls' = Append(calls, Call("close", timestamp, quantity, price, fee, "Ok"))

\* Account::close after its "No PnL history" check: the snapshot, the position,
\* the fund and the trade
close_body(timestamp, quantity, price, fee) ==
    LET last_pnl == Last(profit_and_loss_history)
        current_pnl == F64Mul(quantity, F64Sub(price, position.cost))
        realised_pnl == F64Add(last_pnl.realised_pnl, current_pnl)
        unrealised_pnl == F64Sub(last_pnl.unrealised_pnl, current_pnl)
    IN  /\ profit_and_loss_history' =
               Append(profit_and_loss_history, TimeValue(timestamp, realised_pnl, unrealised_pnl))
        /\ position' = [position EXCEPT !.quantity = F64Sub(@, quantity)]
        /\ available_fund' = F64Add(available_fund, F64Sub(F64Mul(price, quantity), fee))
        /\ trade_history' = Append(trade_history, Trade(timestamp, "Sell", quantity, price, fee))
        /\ calls' = Append(calls, Call("close", timestamp, quantity, price, fee, "Ok"))

\* a failed call: the error is returned before anything is changed
fails(op, timestamp, quantity, price, fee) ==
    /\ calls' = Append(calls, Call(op, timestamp, quantity, price, fee, "Err"))
    /\ UNCHANGED account_vars

\* mutant: close refuses to sell more than is held
close_no_oversell(timestamp, quantity, price, fee) ==
    IF profit_and_loss_history = <<>> \/ F64Less(position.quantity, quantity)
    THEN fails("close", timestamp, quantity, price, fee)
    ELSE close_body(timestamp, quantity, price, fee)

\* mutant: close moves the profit into realised_pnl and leaves unrealised_pnl as it was
close_keeps_unrealised(timestamp, quantity, price, fee) ==
    IF profit_and_loss_history = <<>>
    THEN fails("close", timestamp, quantity, price, fee)
    ELSE LET last_pnl == Last(profit_and_loss_history)
             current_pnl == F64Mul(quantity, F64Sub(price, position.cost))
         IN  /\ profit_and_loss_history' =
                    Append(profit_and_loss_history,
                           TimeValue(timestamp, F64Add(last_pnl.realised_pnl, current_pnl),
                                     last_pnl.unrealised_pnl))
             /\ position' = [position EXCEPT !.quantity = F64Sub(@, quantity)]
             /\ available_fund' = F64Add(available_fund, F64Sub(F64Mul(price, quantity), fee))
             /\ trade_history' = Append(trade_history, Trade(timestamp, "Sell", quantity, price, fee))
             /\ calls' = Append(calls, Call("close", timestamp, quantity, price, fee, "Ok"))

\* mutant: close clears the cost basis when it sells the whole position
close_resets_cost(timestamp, quantity, price, fee) ==
    IF profit_and_loss_history = <<>>
    THEN fails("close", timestamp, quantity, price, fee)
    ELSE LET last_pnl == Last(profit_and_loss_history)
             current_pnl == F64Mul(quantity, F64Sub(price, position.cost))
             left == F64Sub(position.quantity, quantity)
         IN  /\ profit_and_loss_history' =
                    Append(profit_and_loss_history,
                           TimeValue(timestamp, F64Add(last_pnl.realised_pnl, current_pnl),
                                     F64Sub(last_pnl.unrealised_pnl, current_pnl)))
             /\ position' = [quantity |-> left,
                             cost |-> IF left = Zero THEN Zero ELSE position.cost]
             /\ available_fund' = F64Add(available_fund, F64Sub(F64Mul(price, quantity), fee))
             /\ trade_history' = Append(trade_history, Trade(timestamp, "Sell", quantity, price, fee))
             /\ calls' = Append(calls, Call("close", timestamp, quantity, price, fee, "Ok"))

\* Account::close
close(timestamp, quantity, price, fee) ==
    IF profit_and_loss_history = <<>>
    THEN fails("close", timestamp, quantity, price, fee)
    ELSE close_body(timestamp, quantity, price, fee)

\* mutant: mark_to_market starts the snapshot's realised_pnl from zero
mark_to_market_drops_realised(timestamp, closing_price) ==
    IF profit_and_loss_history = <<>>
    THEN fails("mark_to_market", timestamp, Zero, closing_price, Zero)
    ELSE /\ profit_and_loss_history' =
                Append(profit_and_loss_history,
                       TimeValue(timestamp, Zero,
                                 F64Mul(position.quantity, F64Sub(closing_price, position.cost))))
         /\ UNCHANGED <<position, available_fund, trade_history>>
         /\ calls' = Append(calls, Call("mark_to_market", timestamp, Zero, closing_price, Zero, "Ok"))

\* Account::mark_to_market (a call has no quantity and no fee: the log holds zeros)
mark_to_market(timestamp, closing_price) ==
    IF profit_and_loss_history = <<>>
    THEN fails("mark_to_market", timestamp, Zero, closing_price, Zero)
    ELSE LET last_pnl == Last(profit_and_loss_history)
             unrealised_pnl == F64Mul(position.quantity, F64Sub(closing_price, position.cost))
         IN  /\ profit_and_loss_history' =
                    Append(profit_and_loss_history,
                           TimeValue(timestamp, last_pnl.realised_pnl, unrealised_pnl))
             /\ UNCHANGED <<position, available_fund, trade_history>>
             /\ calls' = Append(calls, Call("mark_to_market", timestamp, Zero, closing_price, Zero, "Ok"))

----------------------------------------------------------------------------
(* The ledger under any caller: Account::new, then any calls *)

\* the strategies in the order backtest spawns and returns them
StrategyNames == <<"MACD", "HODL", "DCA", "SMA", "SMA2">>

\* one spawned run: where it is ("unspawned", "account", "trader", "bar", "done"), the
\* bar it is at, its result, and whether its Account and its trader were constructed
Task(task_pc, task_idx, task_outcome, has_account, has_trader) ==
    [pc |-> task_pc, idx |-> task_idx, outcome |-> task_outcome,
     account |-> has_account, trader |-> has_trader]

\* no determine_trade call under way
no_decision == decide_signals = <<>> /\ decision = "none"

\* no indicator fed, no trader constructed from a policy
no_signals == indicators = <<>> /\ emitted = [dca |-> <<>>, sma |-> <<>>, sma2 |-> <<>>]
no_policy == policy = <<>>

\* no backtest under way
no_backtest ==
    /\ tasks = [s \in {StrategyNames[i] : i \in 1..5} |->
                    Task("unspawned", 0, "none", FALSE, FALSE)]
    /\ main_pc = "idle"
    /\ result = <<>>
    /\ logged = <<>>
    /\ main_ret = "none"
    /\ first_done = "none"
    /\ task_inputs = [s \in {StrategyNames[i] : i \in 1..5} |-> <<>>]

Init ==
    /\ \E fund \in Funds, initial_position \in Positions, start_timestamp \in Timestamps :
           new(fund, initial_position, start_timestamp)
    /\ klines = <<>> /\ trader = "none" /\ pc = "api" /\ idx = 0 /\ outcome = "none"
    /\ no_decision
    /\ no_signals
    /\ no_policy
    /\ no_backtest

CallOpen ==
    /\ Len(calls) < MaxOps
    /\ \E quote \in Quotes, quantity \in Quantities, fee \in Fees :
           open(quote.timestamp, quantity, quote.price, fee)
    /\ UNCHANGED <<init_args, run_vars, decide_vars, signal_vars, policy, backtest_vars>>

CallClose ==
    /\ Len(calls) < MaxOps
    /\ \E quote \in Quotes, quantity \in Quantities, fee \in Fees :
           close(quote.timestamp, quantity, quote.price, fee)
    /\ UNCHANGED <<init_args, run_vars, decide_vars, signal_vars, policy, backtest_vars>>

CallMarkToMarket ==
    /\ Len(calls) < MaxOps
    /\ \E quote \in Quotes :
           mark_to_market(quote.timestamp, quote.price)
    /\ UNCHANGED <<init_args, run_vars, decide_vars, signal_vars, policy, backtest_vars>>

Next == CallOpen \/ CallClose \/ CallMarkToMarket

Spec == Init /\ [][Next]_vars

----------------------------------------------------------------------------
(* One strategy run: backtest_macd, backtest_hodl, backtest_sma, backtest_sma2 *)

BinanceKline(start_time, end_time, close_price) ==
    [start_time |-> start_time, end_time |-> end_time, close |-> close_price]

\* the bars of the model: a bar does not end before it starts, and closes at 10 or 20
BarTimes == {1, 2, 3}
Bars ==
    {b \in {BinanceKline(s, e, c) : s \in BarTimes, e \in BarTimes, c \in {Num(10), Num(20)}} :
        b.start_time <= b.end_time}
KlineSeqs == UNION {[1..n -> Bars] : n \in 0..MaxBars}

Strategies == {"MACD", "HODL", "SMA", "SMA2"}
Actions == {"None", "Buy", "Sell"}
\* the signal lists an indicator may return: up to two slots
SignalLists == UNION {[1..n -> Actions] : n \in 0..2}

\* the placeholder for the account of a run that built none
no_account ==
    /\ available_fund = Zero
    /\ position = [quantity |-> Zero, cost |-> Zero]
    /\ profit_and_loss_history = <<>>
    /\ trade_history = <<>>
    /\ init_args = [fund |-> Zero, position |-> [quantity |-> Zero, cost |-> Zero],
                    start_timestamp |-> 0]
    /\ calls = <<>>

\* mutant: the account is seeded with the start time of the last bar
initialise_account_from_last(ks) ==
    IF ks = <<>>
    THEN no_account /\ pc = "done" /\ outcome = "Err"
    ELSE /\ new(Num(1000), [quantity |-> Zero, cost |-> Zero], ks[Len(ks)].start_time)
         /\ pc = "trader" /\ outcome = "running"

\* initialise_account: "No klines fetched" on an empty sequence, else an account of
\* fund 1000 and an empty position, seeded at the first bar's start_time
initialise_account(ks) ==
    IF ks = <<>>
    THEN no_account /\ pc = "done" /\ outcome = "Err"
    ELSE /\ new(Num(1000), [quantity |-> Zero, cost |-> Zero], ks[1].start_time)
         /\ pc = "trader" /\ outcome = "running"

\* StakeSize of each trader: FixPercentage(1.) or FixAmount(100.0)
stake_size(t) ==
    IF t \in {"MACD", "HODL"} THEN [kind |-> "FixPercentage", value |-> Num(1)]
    ELSE [kind |-> "FixAmount", value |-> Num(100)]

\* TradingFee::PercentageFee(0.005), the same for every trader
trading_fee(t) == Norm(5, 1000)

\* mutant: every trader, MACD too, decides by the first slot
determine_trade_first_slot(t, signals) ==
    IF Len(signals) >= 1 THEN signals[1] ELSE "Err"

\* determine_trade: slot 1 of the signals for MACD, slot 0 for the others; "Err" when
\* the list has no such slot
determine_trade(t, signals) ==
    LET slot == IF t = "MACD" THEN 2 ELSE 1
    IN  IF Len(signals) >= slot THEN signals[slot] ELSE "Err"

\* the quantity a stake size buys or sells at a price
stake_quantity(stake, price) ==
    IF stake.kind = "FixPercentage"
    THEN F64Div(F64Mul(stake.value, available_fund), price)
    ELSE F64Div(stake.value, price)

\* the fee of a trade: rate * price * quantity
fee_of(rate, price, quantity) == F64Mul(F64Mul(rate, price), quantity)

\* GenericTrader::next_trade_session with the indicator's signals for the bar: at most
\* one open or close, stamped with the bar's start_time, at the bar's close
next_trade_session(signals, kline) ==
    LET action == determine_trade(trader, signals)
        quantity == stake_quantity(stake_size(trader), kline.close)
        fee == fee_of(trading_fee(trader), kline.close, quantity)
    IN  IF action = "Err"
        THEN /\ UNCHANGED <<account_vars, calls>>
             /\ pc' = "done" /\ outcome' = "Err"
        ELSE IF action = "None"
        THEN /\ UNCHANGED <<account_vars, calls>>
             /\ pc' = "mtm" /\ outcome' = outcome
        ELSE IF action = "Buy"
        THEN /\ open(kline.start_time, quantity, kline.close, fee)
             /\ pc' = "mtm" /\ outcome' = outcome
        ELSE /\ close(kline.start_time, quantity, kline.close, fee)
             /\ IF Last(calls').ret = "Err"
                THEN pc' = "done" /\ outcome' = "Err"
                ELSE pc' = "mtm" /\ outcome' = outcome

\* backtest_*: the bars, then initialise_account
RunInit ==
    /\ klines \in KlineSeqs
    /\ initialise_account(klines)
    /\ trader = "none"
    /\ idx = 0
    /\ no_decision
    /\ no_signals
    /\ no_policy
    /\ no_backtest

\* initialise_*_trader, one per strategy
InitTrader ==
    /\ pc = "trader"
    /\ trader' \in Strategies
    /\ pc' = "step"
    /\ idx' = 1
    /\ UNCHANGED <<account_vars, init_args, calls, klines, outcome, decide_vars, signal_vars, policy, backtest_vars>>

\* mutant: the loop walks the bars from the last to the first
Step_reversed ==
    /\ pc = "step"
    /\ \E signals \in SignalLists :
           next_trade_session(signals, klines[Len(klines) + 1 - idx])
    /\ UNCHANGED <<init_args, klines, trader, idx, decide_vars, signal_vars, policy, backtest_vars>>

\* mutant: the loop notes the step's error and goes on to the valuation
Step_goes_on_after_error ==
    /\ pc = "step"
    /\ \E signals \in SignalLists :
           IF determine_trade(trader, signals) = "Err"
           THEN /\ UNCHANGED <<account_vars, calls>>
                /\ pc' = "mtm" /\ outcome' = "Err"
           ELSE next_trade_session(signals, klines[idx])
    /\ UNCHANGED <<init_args, klines, trader, idx, decide_vars, signal_vars, policy, backtest_vars>>

\* loop_kline, first half of an iteration: trader.next_trade_session(account, kline)?
Step ==
    /\ pc = "step"
    /\ \E signals \in SignalLists : next_trade_session(signals, klines[idx])
    /\ UNCHANGED <<init_args, klines, trader, idx, decide_vars, signal_vars, policy, backtest_vars>>

\* mutant: a bar that ends with nothing held is not valued
MarkBar_skips_flat ==
    /\ pc = "mtm"
    /\ IF position.quantity = Zero
       THEN UNCHANGED <<account_vars, calls>>
       ELSE mark_to_market(klines[idx].end_time, klines[idx].close)
    /\ IF idx < Len(klines)
       THEN pc' = "step" /\ outcome' = outcome /\ idx' = idx + 1
       ELSE pc' = "done" /\ outcome' = "Ok" /\ idx' = idx
    /\ UNCHANGED <<init_args, klines, trader, decide_vars, signal_vars, policy, backtest_vars>>

\* loop_kline, second half: account.mark_to_market(kline.end_time, kline.close)?, then
\* the next bar, or Ok(account) after the last one
MarkBar ==
    /\ pc = "mtm"
    /\ mark_to_market(klines[idx].end_time, klines[idx].close)
    /\ IF Last(calls').ret = "Err"
       THEN pc' = "done" /\ outcome' = "Err" /\ idx' = idx
       ELSE IF idx < Len(klines)
       THEN pc' = "step" /\ outcome' = outcome /\ idx' = idx + 1
       ELSE pc' = "done" /\ outcome' = "Ok" /\ idx' = idx
    /\ UNCHANGED <<init_args, klines, trader, decide_vars, signal_vars, policy, backtest_vars>>

RunNext == InitTrader \/ Step \/ MarkBar

SpecRun == RunInit /\ [][RunNext]_vars

----------------------------------------------------------------------------
(* The decision rule on its own: determine_trade of each trader applied to each
   signal list *)

no_run ==
    /\ no_account
    /\ klines = <<>> /\ pc = "api" /\ idx = 0 /\ outcome = "none"

DecideInit ==
    /\ no_run
    /\ trader \in Strategies
    /\ decide_signals \in SignalLists
    /\ decision = "none"
    /\ no_signals
    /\ no_policy
    /\ no_backtest

\* T::determine_trade(&signals)
Decide ==
    /\ decision = "none"
    /\ decision' = determine_trade(trader, decide_signals)
    /\ UNCHANGED <<account_vars, init_args, calls, run_vars, decide_signals, backtest_vars,
                   signal_vars, policy>>

DecideNext == Decide

SpecDecide == DecideInit /\ [][DecideNext]_vars

----------------------------------------------------------------------------
(* The signal sources: the DCA, SMA and SMA2 indicators, initialised from the first
   bar and fed every bar in order.  Start times are counted here in half months
   from 2000-01-01 00:00. *)

\* NaiveDateTime::month(): 1 for January .. 12 for December
month(t) == ((t \div 2) % 12) + 1

\* NaiveDate::from_ymd_opt(2000, 1, 1) at 00:00:00
MagicDate == 0

\* two bars in January 2024, then February and December 2024, January and
\* February 2025
SignalTimes == {576, 577, 578, 598, 600, 602}
SignalBars == {BinanceKline(t, t, c) : t \in SignalTimes, c \in {Num(10), Num(20)}}
Chronological(ks) == \A i \in 1..(Len(ks) - 1) : ks[i].start_time <= ks[i + 1].start_time
SignalFeeds ==
    {ks \in UNION {[1..n -> SignalBars] : n \in 1..MaxSignalBars} : Chronological(ks)}

\* Dca::init
Dca_init == [last_timestamp |-> MagicDate]

\* DCAInstance::next_binance_kline: the instance after the bar and the action
dca_next_binance_kline(inst, candle) ==
    [inst |-> [last_timestamp |-> candle.start_time],
     action |-> IF month(candle.start_time) = month(inst.last_timestamp)
                THEN "None" ELSE "Buy"]

\* slice.iter().sum::<f64>()
RECURSIVE iter_sum(_)
iter_sum(slice) ==
    IF slice = <<>> THEN Zero
    ELSE F64Add(iter_sum(SubSeq(slice, 1, Len(slice) - 1)), slice[Len(slice)])

\* an Option<f64> is <<>> for None and <<x>> for Some(x); a > b as Option compares:
\* None is below every Some
OptionGreater(a, b) ==
    IF a = <<>> THEN FALSE
    ELSE IF b = <<>> THEN TRUE
    ELSE F64Less(b[1], a[1])

\* mutant: the window starts empty
Sma2_new_empty(window_size, value) == [window_size |-> window_size, prices |-> <<>>]

\* Sma2::new
Sma2_new(window_size, value) == [window_size |-> window_size, prices |-> <<value>>]

\* Sma2::moving_average
moving_average(sma) ==
    IF Len(sma.prices) < sma.window_size THEN <<>>
    ELSE <<F64Div(iter_sum(SubSeq(sma.prices, Len(sma.prices) - sma.window_size + 1,
                                  Len(sma.prices))),
                  Num(sma.window_size))>>

\* Sma2::update_price
update_price(sma, price) ==
    LET pushed == [sma EXCEPT !.prices = Append(@, price)]
    IN  [sma |-> pushed, average |-> moving_average(pushed)]

\* SMA2Instance::new
SMA2Instance_new(short_window, long_window, first_value) ==
    [sma1 |-> Sma2_new(short_window, first_value),
     sma2 |-> Sma2_new(long_window, first_value),
     last_timestamp |-> MagicDate]

\* mutant: the averages are left alone on a bar of the same month
sma2_next_skips_update(inst, candle) ==
    LET short_ma == update_price(inst.sma1, candle.close)
        long_ma == update_price(inst.sma2, candle.close)
    IN  IF month(candle.start_time) = month(inst.last_timestamp)
        THEN [inst |-> [inst EXCEPT !.last_timestamp = candle.start_time],
              action |-> "None"]
        ELSE [inst |-> [sma1 |-> short_ma.sma, sma2 |-> long_ma.sma,
                        last_timestamp |-> candle.start_time],
              action |-> IF OptionGreater(short_ma.average, long_ma.average) THEN "Buy"
                         ELSE IF OptionGreater(long_ma.average, short_ma.average)
                         THEN "Sell" ELSE "None"]

\* SMA2Instance::next_binance_kline
sma2_next_binance_kline(inst, candle) ==
    LET current_month == month(candle.start_time)
        last_month == month(inst.last_timestamp)
        short_ma == update_price(inst.sma1, candle.close)
        long_ma == update_price(inst.sma2, candle.close)
    IN  [inst |-> [sma1 |-> short_ma.sma, sma2 |-> long_ma.sma,
                   last_timestamp |-> candle.start_time],
         action |-> IF current_month = last_month THEN "None"
                    ELSE IF OptionGreater(short_ma.average, long_ma.average) THEN "Buy"
                    ELSE IF OptionGreater(long_ma.average, short_ma.average) THEN "Sell"
                    ELSE "None"]

\* yata::methods::SMA::new: a window of length copies of the value, and their mean
SMA_new(length, value) == [window |-> [i \in 1..length |-> value], value |-> value]

\* yata::methods::SMA::next: the value enters the window, the oldest one leaves, and
\* the mean moves by their difference over the length
SMA_next(sma, value) ==
    LET prev_value == Head(sma.window)
        mean == F64Add(sma.value,
                       F64Div(F64Sub(value, prev_value), Num(Len(sma.window))))
    IN  [sma |-> [window |-> Append(Tail(sma.window), value), value |-> mean],
         average |-> mean]

\* SMAInstance::new
SMAInstance_new(short_window, long_window, first_value) ==
    [sma1 |-> SMA_new(short_window, first_value),
     sma2 |-> SMA_new(long_window, first_value),
     last_timestamp |-> MagicDate]

\* SMAInstance::next_binance_kline
sma_next_binance_kline(inst, candle) ==
    LET current_month == month(candle.start_time)
        last_month == month(inst.last_timestamp)
        short_ma == SMA_next(inst.sma1, candle.close)
        long_ma == SMA_next(inst.sma2, candle.close)
    IN  [inst |-> [sma1 |-> short_ma.sma, sma2 |-> long_ma.sma,
                   last_timestamp |-> candle.start_time],
         action |-> IF current_month = last_month THEN "None"
                    ELSE IF F64Less(long_ma.average, short_ma.average) THEN "Buy"
                    ELSE IF F64Less(short_ma.average, long_ma.average) THEN "Sell"
                    ELSE "None"]

\* the three traders' constructors: each indicator initialised from the first bar,
\* SmaPair::new(1, 2) and Sma2Pair::new(1, 2)
SignalsInit ==
    /\ no_account
    /\ klines \in SignalFeeds
    /\ trader = "none" /\ pc = "feed" /\ idx = 0 /\ outcome = "none"
    /\ no_decision
    /\ no_policy
    /\ no_backtest
    /\ indicators = [dca |-> Dca_init,
                     sma |-> SMAInstance_new(1, 2, klines[1].close),
                     sma2 |-> SMA2Instance_new(1, 2, klines[1].close)]
    /\ emitted = [dca |-> <<>>, sma |-> <<>>, sma2 |-> <<>>]

\* the next bar of the feed goes to each indicator's next_binance_kline
FeedBar ==
    /\ pc = "feed"
    /\ idx < Len(klines)
    /\ LET candle == klines[idx + 1]
           dca == dca_next_binance_kline(indicators.dca, candle)
           sma == sma_next_binance_kline(indicators.sma, candle)
           sma2 == sma2_next_binance_kline(indicators.sma2, candle)
       IN  /\ indicators' = [dca |-> dca.inst, sma |-> sma.inst, sma2 |-> sma2.inst]
           /\ emitted' = [dca |-> Append(emitted.dca, dca.action),
                          sma |-> Append(emitted.sma, sma.action),
                          sma2 |-> Append(emitted.sma2, sma2.action)]
    /\ idx' = idx + 1
    /\ UNCHANGED <<account_vars, init_args, calls, klines, trader, pc, outcome,
                   decide_vars, policy, backtest_vars>>

SignalsNext == FeedBar

SpecSignals == SignalsInit /\ [][SignalsNext]_vars

----------------------------------------------------------------------------
(* backtest and main: the five runs spawned on one bar sequence, joined and logged.
   A run keeps its Account to itself; here it is followed by the bar it has reached.
   A task that panics is not modelled. *)

\* the bar sequences of the model: a prefix of a chain of bars
Feed == [i \in 1..MaxFeed |-> BinanceKline(i, i, Num(10))]
Feeds == {SubSeq(Feed, 1, n) : n \in 0..MaxFeed}

Names == {StrategyNames[i] : i \in 1..5}

BacktestInit ==
    /\ no_account
    /\ klines \in Feeds
    /\ trader = "none" /\ pc = "api" /\ idx = 0 /\ outcome = "none"
    /\ no_decision
    /\ no_signals
    /\ no_policy
    /\ tasks = [s \in Names |-> Task("unspawned", 0, "none", FALSE, FALSE)]
    /\ main_pc = "spawn"
    /\ result = <<>>
    /\ logged = <<>>
    /\ main_ret = "none"
    /\ first_done = "none"
    /\ task_inputs = [s \in Names |-> <<>>]

\* a step of run s to task t, noting the first run to end
set_task(s, t) ==
    /\ tasks' = [tasks EXCEPT ![s] = t]
    /\ first_done' = IF t.pc = "done" /\ first_done = "none" THEN s ELSE first_done

\* backtest: the next tokio::spawn, in the order of the five statements; the spawned
\* run starts at once, whatever klines holds
spawn ==
    /\ main_pc = "spawn"
    /\ LET i == CHOOSE i \in 1..5 :
                   /\ tasks[StrategyNames[i]].pc = "unspawned"
                   /\ \A j \in 1..(i - 1) : tasks[StrategyNames[j]].pc # "unspawned"
       IN  /\ tasks' = [tasks EXCEPT ![StrategyNames[i]].pc = "account"]
           /\ main_pc' = IF i = 5 THEN "join" ELSE "spawn"
    /\ UNCHANGED <<account_vars, init_args, calls, run_vars, decide_vars, signal_vars, policy,
                   result, logged, main_ret, first_done, task_inputs>>

\* run s is given x by its own trader or indicator
note_input(s, x) == task_inputs' = [task_inputs EXCEPT ![s] = Append(@, x)]

\* backtest_*: initialise_account(&klines, name)?
task_initialise_account(s) ==
    /\ tasks[s].pc = "account"
    /\ IF klines = <<>>
       THEN set_task(s, Task("done", 0, "Err", FALSE, FALSE))
       ELSE set_task(s, Task("trader", 0, "none", TRUE, FALSE))
    /\ UNCHANGED task_inputs
    /\ UNCHANGED <<account_vars, init_args, calls, run_vars, decide_vars, signal_vars, policy,
                   main_pc, result, logged, main_ret>>

\* backtest_*: initialise_*_trader(&klines)?, whose indicator's init returns a Result
task_initialise_trader(s) ==
    /\ tasks[s].pc = "trader"
    /\ \E ok \in BOOLEAN :
           IF ok
           THEN set_task(s, Task("bar", 1, "none", TRUE, TRUE)) /\ note_input(s, "ok")
           ELSE set_task(s, Task("done", 0, "Err", TRUE, FALSE)) /\ note_input(s, "fail")
    /\ UNCHANGED <<account_vars, init_args, calls, run_vars, decide_vars, signal_vars, policy,
                   main_pc, result, logged, main_ret>>

\* mutant: a run that fails at a bar aborts the runs still under way
task_bar_aborts_others(s) ==
    /\ tasks[s].pc = "bar"
    /\ \E signals \in SignalLists :
           IF determine_trade(s, signals) = "Err"
           THEN /\ tasks' = [t \in Names |->
                                IF t = s \/ tasks[t].pc \in {"account", "trader", "bar"}
                                THEN [tasks[t] EXCEPT !.pc = "done", !.outcome = "Err"]
                                ELSE tasks[t]]
                /\ first_done' = IF first_done = "none" THEN s ELSE first_done
                /\ note_input(s, "missing")
           ELSE /\ note_input(s, "signal")
                /\ IF tasks[s].idx < Len(klines)
                   THEN set_task(s, [tasks[s] EXCEPT !.idx = @ + 1])
                   ELSE set_task(s, [tasks[s] EXCEPT !.pc = "done", !.outcome = "Ok"])
    /\ UNCHANGED <<account_vars, init_args, calls, run_vars, decide_vars, signal_vars, policy,
                   main_pc, result, logged, main_ret>>

\* mutant: a run gives up at its next bar once another run has failed
task_bar_sees_failures(s) ==
    /\ tasks[s].pc = "bar"
    /\ \E signals \in SignalLists :
           IF determine_trade(s, signals) = "Err"
           THEN /\ set_task(s, [tasks[s] EXCEPT !.pc = "done", !.outcome = "Err"])
                /\ note_input(s, "missing")
           ELSE /\ note_input(s, "signal")
                /\ IF \E t \in Names \ {s} : tasks[t].outcome = "Err"
                   THEN set_task(s, [tasks[s] EXCEPT !.pc = "done", !.outcome = "Err"])
                   ELSE IF tasks[s].idx < Len(klines)
                   THEN set_task(s, [tasks[s] EXCEPT !.idx = @ + 1])
                   ELSE set_task(s, [tasks[s] EXCEPT !.pc = "done", !.outcome = "Ok"])
    /\ UNCHANGED <<account_vars, init_args, calls, run_vars, decide_vars, signal_vars, policy,
                   main_pc, result, logged, main_ret>>

\* loop_kline, one iteration of run s: next_trade_session(account, kline)?, which
\* fails when the decision rule finds no signal, then mark_to_market, which cannot
\* fail on a seeded account; after the last bar the run returns Ok(account)
task_bar(s) ==
    /\ tasks[s].pc = "bar"
    /\ \E signals \in SignalLists :
           IF determine_trade(s, signals) = "Err"
           THEN /\ set_task(s, [tasks[s] EXCEPT !.pc = "done", !.outcome = "Err"])
                /\ note_input(s, "missing")
           ELSE /\ note_input(s, "signal")
                /\ IF tasks[s].idx < Len(klines)
                   THEN set_task(s, [tasks[s] EXCEPT !.idx = @ + 1])
                   ELSE set_task(s, [tasks[s] EXCEPT !.pc = "done", !.outcome = "Ok"])
    /\ UNCHANGED <<account_vars, init_args, calls, run_vars, decide_vars, signal_vars, policy,
                   main_pc, result, logged, main_ret>>

\* the tuple of the five outcomes, in the order of the names given
outcomes(names) ==
    [i \in 1..Len(names) |-> [strategy |-> names[i], outcome |-> tasks[names[i]].outcome]]

\* mutant: the join returns as soon as one run has ended
join_first_done ==
    /\ main_pc = "join"
    /\ \E s \in Names : tasks[s].pc = "done"
    /\ result' = outcomes(StrategyNames)
    /\ main_pc' = "log"
    /\ UNCHANGED <<account_vars, init_args, calls, run_vars, decide_vars, signal_vars, policy,
                   tasks, logged, main_ret, first_done, task_inputs>>

\* mutant: the tuple starts with the run that ended first
join_completion_order ==
    /\ main_pc = "join"
    /\ \A s \in Names : tasks[s].pc = "done"
    /\ result' = outcomes(<<first_done>> \o SelectSeq(StrategyNames, LAMBDA n : n # first_done))
    /\ main_pc' = "log"
    /\ UNCHANGED <<account_vars, init_args, calls, run_vars, decide_vars, signal_vars, policy,
                   tasks, logged, main_ret, first_done, task_inputs>>

\* backtest: tokio::join! of the five handles, then Ok of the five outcomes
join ==
    /\ main_pc = "join"
    /\ \A s \in Names : tasks[s].pc = "done"
    /\ result' = outcomes(StrategyNames)
    /\ main_pc' = "log"
    /\ UNCHANGED <<account_vars, init_args, calls, run_vars, decide_vars, signal_vars, policy,
                   tasks, logged, main_ret, first_done, task_inputs>>

\* main: the next info! line; the ? on a failed strategy's outcome returns from main
main_log ==
    /\ main_pc = "log"
    /\ LET i == Len(logged) + 1
       IN  IF result[i].outcome # "Ok"
           THEN /\ main_ret' = "Err"
                /\ main_pc' = "done"
                /\ logged' = logged
           ELSE /\ logged' = Append(logged, result[i].strategy)
                /\ main_ret' = IF i = 5 THEN "Ok" ELSE main_ret
                /\ main_pc' = IF i = 5 THEN "done" ELSE "log"
    /\ UNCHANGED <<account_vars, init_args, calls, run_vars, decide_vars, signal_vars, policy,
                   tasks, result, first_done, task_inputs>>

BacktestNext ==
    \/ spawn
    \/ \E s \in Names : task_initialise_account(s)
    \/ \E s \in Names : task_initialise_trader(s)
    \/ \E s \in Names : task_bar(s)
    \/ join
    \/ main_log

SpecBacktest == BacktestInit /\ [][BacktestNext]_vars

----------------------------------------------------------------------------
(* The traders' constructors and the policies they are handed: a StakeSize and a
   TradingFee are plain values built by the caller *)

StakeParams == {Num(-1), Zero, Num(1), NaN, PInf}
FeeParams == {Norm(-5, 1000), Zero, Norm(5, 1000), NaN, PInf}
StakeSizes == {[kind |-> k, value |-> v] : k \in {"FixPercentage", "FixAmount"}, v \in StakeParams}

PolicyInit ==
    /\ no_account
    /\ klines \in Feeds
    /\ trader = "none" /\ pc = "new" /\ idx = 0 /\ outcome = "none"
    /\ no_decision
    /\ no_signals
    /\ no_backtest
    /\ policy \in {[stake_size |-> st, trading_fee |-> f] : st \in StakeSizes, f \in FeeParams}

\* MACDTrader::new(kline_feed, trading_fee, stake_size): fails on an empty feed, else
\* stores both policies as given
MACDTrader_new ==
    /\ pc = "new"
    /\ IF klines = <<>>
       THEN trader' = trader /\ outcome' = "Err"
       ELSE trader' = "MACD" /\ outcome' = "Ok"
    /\ pc' = "built"
    /\ UNCHANGED <<account_vars, init_args, calls, klines, idx, decide_vars, signal_vars,
                   policy, backtest_vars>>

\* SMA2Trader::new(kline_feed, trading_fee): fails on an empty feed, else stores the
\* fee as given and StakeSize::FixAmount(100.0)
SMA2Trader_new ==
    /\ pc = "new"
    /\ IF klines = <<>>
       THEN trader' = trader /\ outcome' = "Err" /\ policy' = policy
       ELSE /\ trader' = "SMA2" /\ outcome' = "Ok"
            /\ policy' = [policy EXCEPT !.stake_size = stake_size("SMA2")]
    /\ pc' = "built"
    /\ UNCHANGED <<account_vars, init_args, calls, klines, idx, decide_vars, signal_vars,
                   backtest_vars>>

PolicyNext == MACDTrader_new \/ SMA2Trader_new

SpecPolicy == PolicyInit /\ [][PolicyNext]_vars

----------------------------------------------------------------------------
(* What the claims speak of *)

\* the step just taken was a call of op
Called(op) == Len(calls') = Len(calls) + 1 /\ Last(calls').op = op

\* the sum of a sequence of numbers, left to right
RECURSIVE SumSeq(_)
SumSeq(s) ==
    IF s = <<>> THEN Zero
    ELSE F64Add(SumSeq(SubSeq(s, 1, Len(s) - 1)), s[Len(s)])

\* the sum of f(c) over the calls c of op in s, in call order
SumOver(s, op, f(_)) ==
    SumSeq([i \in 1..Len(s) |-> IF s[i].op = op THEN f(s[i]) ELSE Zero])

QuantityOf(c) == c.quantity
Paid(c) == F64Add(F64Mul(c.price, c.quantity), c.fee)
Received(c) == F64Sub(F64Mul(c.price, c.quantity), c.fee)

----------------------------------------------------------------------------
(* C1 *)

\* C1: after any sequence of open, close and mark_to_market calls, position.quantity
\* is the constructed quantity plus the opened quantities minus the closed quantities,
\* every close counted: none is refused, also one larger than the quantity held.
C1_QuantityConservation ==
    /\ position.quantity =
           F64Sub(F64Add(init_args.position.quantity, SumOver(calls, "open", QuantityOf)),
                  SumOver(calls, "close", QuantityOf))
    /\ \A i \in 1..Len(calls) : calls[i].op = "close" => calls[i].ret = "Ok"

\* a close of more than was held went through and left a negative quantity
C1_Oversold ==
    /\ calls # <<>>
    /\ Last(calls).op = "close"
    /\ Last(calls).ret = "Ok"
    /\ F64Less(position.quantity, Zero)
    /\ \A i \in 1..Len(calls) - 1 : ~F64Less(calls[i].quantity, Zero)

----------------------------------------------------------------------------
(* C2 *)

\* C2: open(timestamp, q, p, fee) on a position (oldQty, oldCost) sets position.cost to
\* (oldQty*oldCost + q*p) / (oldQty + q), all of it read before q is added; where
\* oldQty + q is not zero the new cost times (oldQty + q) is oldQty*oldCost + q*p.
C2_OpenWeightedAverage ==
    [][Called("open") =>
        LET c == Last(calls')
            total == F64Add(F64Mul(position.quantity, position.cost), F64Mul(c.quantity, c.price))
            held == F64Add(position.quantity, c.quantity)
        IN  /\ position'.cost = F64Div(total, held)
            /\ (held # Zero /\ IsFinite(position.cost))
                   => F64Mul(position'.cost, held) = total]_vars

\* position {quantity 100, cost 10}, open(100, 20, 0.02): {quantity 200, cost 15}
C2_TestOpen ==
    /\ init_args.position = [quantity |-> Num(100), cost |-> Num(10)]
    /\ Len(calls) = 1
    /\ calls[1].op = "open" /\ calls[1].quantity = Num(100) /\ calls[1].price = Num(20)
    /\ position = [quantity |-> Num(200), cost |-> Num(15)]

----------------------------------------------------------------------------
(* C3 *)

\* C3: an open whose quantity brings the held quantity to zero (oldQty + quantity = 0)
\* fails with a ComputationError, and the cost basis stays a finite number.
C3_ZeroCombinedQuantityFails ==
    [][(Called("open") /\ F64Add(position.quantity, Last(calls').quantity) = Zero)
          => /\ Last(calls').ret = "ComputationError"
             /\ IsFinite(position'.cost)]_vars

----------------------------------------------------------------------------
(* C4 *)

\* C4: close(timestamp, q, price, fee) appends exactly one snapshot: its realised_pnl
\* is the last snapshot's realised_pnl plus q*(price - position.cost), its
\* unrealised_pnl the last snapshot's unrealised_pnl minus the same amount, with
\* position.cost as it is when close is called.
C4_CloseSnapshot ==
    [][Called("close") =>
        LET c == Last(calls')
            last_pnl == Last(profit_and_loss_history)
            delta == F64Mul(c.quantity, F64Sub(c.price, position.cost))
        IN  /\ Len(profit_and_loss_history') = Len(profit_and_loss_history) + 1
            /\ SubSeq(profit_and_loss_history', 1, Len(profit_and_loss_history))
                   = profit_and_loss_history
            /\ Last(profit_and_loss_history').realised_pnl
                   = F64Add(last_pnl.realised_pnl, delta)
            /\ Last(profit_and_loss_history').unrealised_pnl
                   = F64Sub(last_pnl.unrealised_pnl, delta)]_vars

\* position {100, cost 10}, close(50, 20, 0.02): last snapshot {realised 500, unrealised -500}
C4_TestClose ==
    /\ init_args.position = [quantity |-> Num(100), cost |-> Num(10)]
    /\ Len(calls) = 1
    /\ calls[1].op = "close" /\ calls[1].quantity = Num(50) /\ calls[1].price = Num(20)
    /\ Last(profit_and_loss_history).realised_pnl = Num(500)
    /\ Last(profit_and_loss_history).unrealised_pnl = Num(-500)
    /\ position = [quantity |-> Num(50), cost |-> Num(10)]

----------------------------------------------------------------------------
(* C5 *)

\* C5: mark_to_market(timestamp, closing_price) appends one snapshot with
\* unrealised_pnl = position.quantity*(closing_price - position.cost) and the last
\* snapshot's realised_pnl, and leaves the trades, the fund and the position alone.
C5_MarkToMarket ==
    [][Called("mark_to_market") =>
        LET c == Last(calls')
            last_pnl == Last(profit_and_loss_history)
        IN  /\ profit_and_loss_history' =
                   Append(profit_and_loss_history,
                          [timestamp |-> c.timestamp,
                           realised_pnl |-> last_pnl.realised_pnl,
                           unrealised_pnl |->
                               F64Mul(position.quantity, F64Sub(c.price, position.cost))])
            /\ trade_history' = trade_history
            /\ available_fund' = available_fund
            /\ position' = position]_vars

\* a valuation after a profit was realised: the realised profit is carried over
C5_MarkAfterProfit ==
    /\ Len(calls) >= 2
    /\ Last(calls).op = "mark_to_market"
    /\ Last(profit_and_loss_history).realised_pnl = Num(500)
    /\ Last(profit_and_loss_history).unrealised_pnl = Num(500)

----------------------------------------------------------------------------
(* C6 *)

\* C6: every close and every mark_to_market lengthens the valuation history by one,
\* every open and every close lengthens the trade history by one, open leaves the
\* length of the valuation history and mark_to_market that of the trade history.
C6_HistoryGrowth ==
    [][/\ Called("close") =>
            /\ Len(profit_and_loss_history') = Len(profit_and_loss_history) + 1
            /\ Len(trade_history') = Len(trade_history) + 1
       /\ Called("mark_to_market") =>
            /\ Len(profit_and_loss_history') = Len(profit_and_loss_history) + 1
            /\ Len(trade_history') = Len(trade_history)
       /\ Called("open") =>
            /\ Len(profit_and_loss_history') = Len(profit_and_loss_history)
            /\ Len(trade_history') = Len(trade_history) + 1]_vars

\* one call of each kind was made
C6_AllThreeCalled ==
    /\ \E i \in 1..Len(calls) : calls[i].op = "open"
    /\ \E i \in 1..Len(calls) : calls[i].op = "close"
    /\ \E i \in 1..Len(calls) : calls[i].op = "mark_to_market"
    /\ Len(trade_history) = 2
    /\ Len(profit_and_loss_history) = 3

----------------------------------------------------------------------------
(* C7 *)

\* C7: available_fund is the initial fund minus price*quantity + fee of every open
\* plus price*quantity - fee of every close; calls go through unchanged when the
\* fund is negative.
C7_FundConservation ==
    available_fund =
        F64Add(F64Sub(init_args.fund, SumOver(calls, "open", Paid)),
               SumOver(calls, "close", Received))

\* an open and a close were made on an account whose fund was already negative
C7_TradedWhileNegative ==
    /\ Len(calls) = 3
    /\ calls[1].op = "open" /\ calls[1].quantity = Num(100) /\ calls[1].price = Num(20)
    /\ calls[2].op = "open" /\ calls[2].quantity # Zero
    /\ calls[3].op = "close" /\ calls[3].ret = "Ok" /\ calls[3].quantity # Zero
    /\ F64Less(available_fund, Zero)

----------------------------------------------------------------------------
(* C8 *)

\* C8: only open changes position.cost: every close, whatever its quantity, and every
\* mark_to_market leaves it as it was.
C8_CostChangedOnlyByOpen ==
    [][/\ (Called("close") \/ Called("mark_to_market")) => position'.cost = position.cost
       /\ position'.cost # position.cost => Called("open")]_vars

\* a close sold the whole position, another one sold short: the cost is still 10
C8_SoldOutAndOversold ==
    /\ init_args.position = [quantity |-> Num(100), cost |-> Num(10)]
    /\ Len(calls) = 2
    /\ calls[1].op = "close" /\ calls[1].quantity = Num(100)
    /\ calls[2].op = "close" /\ calls[2].quantity = Num(50)
    /\ position = [quantity |-> Num(-50), cost |-> Num(10)]

----------------------------------------------------------------------------
(* C9 *)

\* C9: the valuation history is never empty, its first element is the seed snapshot
\* (start_timestamp, realised 0, unrealised 0), and no close or mark_to_market
\* returned the "No PnL history" error.
C9_SeedSnapshotKept ==
    /\ Len(profit_and_loss_history) >= 1
    /\ profit_and_loss_history[1] =
           [timestamp |-> init_args.start_timestamp, realised_pnl |-> Zero,
            unrealised_pnl |-> Zero]
    /\ \A i \in 1..Len(calls) : calls[i].ret # "Err"

\* closes and valuations have been appended after the seed
C9_GrownHistory ==
    /\ Len(profit_and_loss_history) = 4
    /\ \E i \in 1..Len(calls) : calls[i].op = "close"
    /\ \E i \in 1..Len(calls) : calls[i].op = "mark_to_market"

----------------------------------------------------------------------------
(* C10 *)

NonDecreasing(h) == \A i \in 1..Len(h) - 1 : h[i].timestamp <= h[i + 1].timestamp

\* the bars are in strictly ascending order of start_time
AscendingStarts(ks) == \A i \in 1..Len(ks) - 1 : ks[i].start_time < ks[i + 1].start_time

\* no bar ends before it starts or after the next one starts
Chained(ks) ==
    /\ \A i \in 1..Len(ks) : ks[i].start_time <= ks[i].end_time
    /\ \A i \in 1..Len(ks) - 1 : ks[i].end_time <= ks[i + 1].start_time

\* C10 as stated: in a run over bars in ascending order of start_time, the seed stamped
\* with the first start_time, closes with the bar's start_time and valuations with the
\* bar's end_time, the snapshots' timestamps never decrease.
C10_TimestampsNonDecreasing ==
    AscendingStarts(klines) => NonDecreasing(profit_and_loss_history)

\* C10 amended: the snapshots' timestamps never decrease in a run over bars none of
\* which ends before it starts or after the next bar starts.
C10_TimestampsNonDecreasingOnChainedBars ==
    Chained(klines) => NonDecreasing(profit_and_loss_history)

\* a finished run over two chained bars of different times with a close in the second
C10_ChainedRunWithClose ==
    /\ pc = "done" /\ outcome = "Ok"
    /\ Len(klines) = 2 /\ Chained(klines)
    /\ klines[1].end_time < klines[2].start_time
    /\ Len(calls) = 3
    /\ calls[2].op = "close"
    /\ Len(profit_and_loss_history) = 4

----------------------------------------------------------------------------
(* C11 *)

\* C11: every trade in the trade history of a strategy run has quantity > 0 and
\* fee > 0, also after the fund has dropped to zero or below under FixPercentage.
C11_TradesPositive ==
    \A i \in 1..Len(trade_history) :
        /\ F64Less(Zero, trade_history[i].quantity)
        /\ F64Less(Zero, trade_history[i].fee)

----------------------------------------------------------------------------
(* C12 *)

\* the trade a call is to leave in the trade history
TradeOf(c, side) ==
    [timestamp |-> c.timestamp, buy_sell_indicator |-> side, quantity |-> c.quantity,
     price |-> c.price, fee |-> c.fee]

\* C12: the trade history only grows at its end: every call keeps the recorded trades
\* as a prefix, open appends a Buy and close a Sell carrying the call's timestamp,
\* quantity, price and fee, and mark_to_market appends nothing.
C12_TradesAppendOnly ==
    [][/\ Len(trade_history') >= Len(trade_history)
       /\ SubSeq(trade_history', 1, Len(trade_history)) = trade_history
       /\ Called("open") => trade_history' = Append(trade_history, TradeOf(Last(calls'), "Buy"))
       /\ Called("close") => trade_history' = Append(trade_history, TradeOf(Last(calls'), "Sell"))
       /\ Called("mark_to_market") => trade_history' = trade_history]_vars

\* a Buy of 100 at 20 followed by a Sell of 50 at 10, both in the history
C12_BuyThenSell ==
    /\ Len(calls) = 3
    /\ trade_history =
           <<[timestamp |-> 2, buy_sell_indicator |-> "Buy", quantity |-> Num(100),
              price |-> Num(20), fee |-> Norm(2, 100)],
             [timestamp |-> 1, buy_sell_indicator |-> "Sell", quantity |-> Num(50),
              price |-> Num(10), fee |-> Norm(2, 100)]>>

----------------------------------------------------------------------------
(* C13 *)

\* C13: on an empty bar sequence the orchestrator fails before any run is started:
\* no run is spawned, no Account and no trader is constructed, and the call ends
\* with an error.
C13_EmptyFeedFailsFast ==
    (main_pc # "idle" /\ klines = <<>>) =>
        /\ \A s \in Names :
               tasks[s].pc = "unspawned" /\ ~tasks[s].account /\ ~tasks[s].trader
        /\ main_pc \in {"spawn", "done"}
        /\ main_pc = "done" => main_ret = "Err"

----------------------------------------------------------------------------
(* C14 *)

\* C14: a run's failure, at the construction of its trader or at any bar, touches
\* no other run: a step that changes one run leaves the four others as they were,
\* a run fails only in a step of its own, at the bar it had reached, and every run
\* that returns an account has processed every bar, whatever became of the others;
\* the tuple backtest returns holds each run's own outcome.
C14_FailureStaysInItsRun ==
    [][\A s \in Names :
           /\ tasks'[s] # tasks[s] =>
                  \A t \in Names \ {s} : tasks'[t] = tasks[t]
           /\ (tasks'[s].outcome = "Err" /\ tasks[s].outcome # "Err") =>
                  /\ tasks[s].pc \in {"account", "trader", "bar"}
                  /\ tasks'[s].idx = tasks[s].idx
           /\ tasks'[s].outcome = "Ok" =>
                  /\ tasks'[s].idx = Len(klines)
                  /\ tasks'[s].account /\ tasks'[s].trader
           /\ result' # <<>> =>
                  \E i \in 1..Len(result') :
                      /\ result'[i].strategy = s
                      /\ result'[i].outcome = tasks'[s].outcome]_vars

\* all five runs have ended on two bars: MACD failed at the first bar and HODL at the
\* construction of its trader, the three others processed both bars
C14_TwoFailedThreeFinished ==
    /\ Len(klines) = 2
    /\ tasks["MACD"] = Task("done", 1, "Err", TRUE, TRUE)
    /\ tasks["HODL"] = Task("done", 0, "Err", TRUE, FALSE)
    /\ \A s \in {"DCA", "SMA", "SMA2"} : tasks[s] = Task("done", 2, "Ok", TRUE, TRUE)
    /\ first_done = "MACD"

----------------------------------------------------------------------------
(* C15 *)

\* C15: the call never fails because a run failed: when main has ended it has
\* returned Ok and reported the outcome of each of the five strategies.
C15_EveryOutcomeReported ==
    main_pc = "done" =>
        /\ main_ret = "Ok"
        /\ {logged[i] : i \in 1..Len(logged)} = Names

----------------------------------------------------------------------------
(* C16 *)

\* C16: the tuple of outcomes exists only once every spawned run has ended, and each
\* outcome in it is the final one of its run, Ok or Err.
C16_ReportAfterAllRuns ==
    result # <<>> =>
        \A i \in 1..Len(result) :
            /\ tasks[result[i].strategy].pc = "done"
            /\ result[i].outcome \in {"Ok", "Err"}
            /\ result[i].outcome = tasks[result[i].strategy].outcome

\* the tuple made after runs that ended at different points: one failed at its
\* trader, one at the second bar, one returned its account
C16_ReportOfMixedRuns ==
    /\ main_pc = "log"
    /\ Len(result) = 5
    /\ Len(klines) = 2
    /\ tasks["SMA"] = Task("done", 0, "Err", TRUE, FALSE)
    /\ tasks["DCA"] = Task("done", 2, "Err", TRUE, TRUE)
    /\ tasks["SMA2"].outcome = "Ok"

----------------------------------------------------------------------------
(* C17 *)

\* C17: whichever run ends first, the tuple of outcomes lists MACD, HODL, DCA, SMA,
\* SMA2 in this order, each place holding the outcome of the run of that name.
C17_ReportInFixedOrder ==
    result # <<>> =>
        /\ [i \in 1..Len(result) |-> result[i].strategy] =
               <<"MACD", "HODL", "DCA", "SMA", "SMA2">>
        /\ \A i \in 1..Len(result) :
               result[i].outcome = tasks[result[i].strategy].outcome

\* the tuple of a backtest in which SMA2, spawned last, ended first and with another
\* outcome than MACD
C17_LastSpawnedEndedFirst ==
    /\ result # <<>>
    /\ first_done = "SMA2"
    /\ tasks["SMA2"].outcome = "Err"
    /\ tasks["MACD"].outcome = "Ok"

----------------------------------------------------------------------------
(* C20 *)

\* C20: the decision rule is a constant index into the signal list: HODL, SMA and
\* SMA2 return the first action (slot 0) and MACD the second (slot 1), unchanged, and
\* a list without that slot gives an error instead of an action.
C20_DecisionBySlot ==
    decision # "none" =>
        /\ (trader \in {"HODL", "SMA", "SMA2"} /\ Len(decide_signals) >= 1) =>
               decision = decide_signals[1]
        /\ (trader \in {"HODL", "SMA", "SMA2"} /\ Len(decide_signals) = 0) =>
               decision = "Err"
        /\ (trader = "MACD" /\ Len(decide_signals) >= 2) =>
               decision = decide_signals[2]
        /\ (trader = "MACD" /\ Len(decide_signals) < 2) =>
               decision = "Err"

\* MACD given a Buy and a Sell has decided to sell
C20_MacdTakesSecond ==
    /\ trader = "MACD"
    /\ decide_signals = <<"Buy", "Sell">>
    /\ decision = "Sell"

----------------------------------------------------------------------------
(* C18 *)

\* the valuations among the first n calls: the bars completed by then
MarksIn(s, n) ==
    Cardinality({i \in 1..n : s[i].op = "mark_to_market" /\ s[i].ret = "Ok"})

\* every call on the account belongs to the bar after the completed ones: a trade is
\* stamped with that bar's start_time and followed by that bar's valuation, a
\* valuation is made at that bar's end_time and close
CallsFollowBars(s, ks) ==
    \A i \in 1..Len(s) :
        LET k == MarksIn(s, i - 1) + 1
        IN  /\ k <= Len(ks)
            /\ s[i].price = ks[k].close
            /\ s[i].op = "mark_to_market" => s[i].timestamp = ks[k].end_time
            /\ s[i].op # "mark_to_market" =>
                   /\ s[i].timestamp = ks[k].start_time
                   /\ i < Len(s) => s[i + 1].op = "mark_to_market"

\* C18: in a run the bars are processed in input order: the step of bar i, then the
\* valuation of bar i, then the step of bar i+1; the valuation is the last call made
\* on the account for its bar.
C18_StepThenMarkPerBar ==
    [][/\ pc = "step" =>
            /\ idx' = idx
            /\ pc' \in {"mtm", "done"}
            /\ MarksIn(calls', Len(calls')) = idx - 1
       /\ pc = "mtm" =>
            /\ Called("mark_to_market")
            /\ MarksIn(calls', Len(calls')) = idx
            /\ pc' = "step" => idx' = idx + 1
            /\ pc' = "done" => idx = Len(klines)
       /\ CallsFollowBars(calls', klines)
       /\ (pc' = "done" /\ outcome' = "Ok") =>
            /\ MarksIn(calls', Len(calls')) = Len(klines)
            /\ Last(calls').op = "mark_to_market"]_vars

\* a finished run over two bars of different times with a trade in each
C18_TwoBarsTraded ==
    /\ pc = "done" /\ outcome = "Ok"
    /\ Len(klines) = 2
    /\ klines[1].start_time < klines[1].end_time
    /\ klines[1].end_time < klines[2].start_time
    /\ Len(calls) = 4
    /\ calls[1].op = "open" /\ calls[3].op = "close"

----------------------------------------------------------------------------
(* C19 *)

\* C19: when the step of bar i returns an error the run ends at once with that error:
\* no valuation is made for bar i, no later bar is processed, and nothing happens
\* to the account after the run has ended.
C19_ErrorEndsRun ==
    [][/\ pc # "done"
       /\ outcome' = "Err" =>
            /\ pc' = "done"
            /\ idx' = idx
            /\ UNCHANGED account_vars
            /\ MarksIn(calls', Len(calls')) = idx - 1]_vars

\* a run of two bars that failed in the step of the second bar, after a trade and the
\* valuation of the first
C19_FailedAtSecondBar ==
    /\ pc = "done" /\ outcome = "Err"
    /\ Len(klines) = 2 /\ idx = 2
    /\ Len(calls) = 2
    /\ calls[1].op = "open" /\ calls[2].op = "mark_to_market"

----------------------------------------------------------------------------
(* C21 *)

\* the year and month of a start time
CalendarMonth(t) == t \div 2

\* bar i of ks is the first bar of its calendar month
FirstOfMonth(ks, i) ==
    i = 1 \/ CalendarMonth(ks[i].start_time) # CalendarMonth(ks[i - 1].start_time)

\* C21: fed a chronologically ordered bar sequence, the DCA source emits Buy on the
\* first bar of every calendar month, the month of the very first bar included, and
\* None on every other bar.
C21_DcaBuysOncePerMonth ==
    \A i \in 1..Len(emitted.dca) :
        emitted.dca[i] = IF FirstOfMonth(klines, i) THEN "Buy" ELSE "None"

----------------------------------------------------------------------------
(* C22 *)

\* the window averages the claim speaks of at bar i: the short one is the bar's
\* close, the long one the mean of it and the close before (the first bar's own
\* close at the first bar)
ShortAverage(ks, i) == ks[i].close
LongAverage(ks, i) ==
    F64Div(F64Add(ks[IF i = 1 THEN 1 ELSE i - 1].close, ks[i].close), Num(2))
Crossover(ks, i) ==
    IF F64Less(LongAverage(ks, i), ShortAverage(ks, i)) THEN "Buy"
    ELSE IF F64Less(ShortAverage(ks, i), LongAverage(ks, i)) THEN "Sell"
    ELSE "None"

\* the closes of the first n bars
Closes(ks, n) == [i \in 1..n |-> ks[i].close]

\* C22: the SMA2 source emits None on a bar whose month is that of the bar before,
\* and on the first bar of a new month Buy, Sell or None as the short average is
\* above, below or equal to the long one; it emits a Buy or Sell at most once per
\* calendar month; and both windows take the close of every bar fed, whatever was
\* emitted.
C22_Sma2OncePerMonth ==
    LET n == Len(emitted.sma2)
    IN  /\ \A i \in 1..n :
               emitted.sma2[i] =
                   IF i > 1 /\ month(klines[i].start_time) = month(klines[i - 1].start_time)
                   THEN "None"
                   ELSE Crossover(klines, i)
        /\ \A i \in 1..n : \A j \in (i + 1)..n :
               CalendarMonth(klines[i].start_time) = CalendarMonth(klines[j].start_time) =>
                   emitted.sma2[i] = "None" \/ emitted.sma2[j] = "None"
        /\ indicators.sma2.sma1.prices = <<klines[1].close>> \o Closes(klines, n)
        /\ indicators.sma2.sma2.prices = <<klines[1].close>> \o Closes(klines, n)

\* three bars in three months, closing at 10, 20, 10: nothing, a Buy, a Sell
C22_BuyThenSellAcrossMonths ==
    /\ Len(klines) = 3
    /\ CalendarMonth(klines[1].start_time) < CalendarMonth(klines[2].start_time)
    /\ CalendarMonth(klines[2].start_time) < CalendarMonth(klines[3].start_time)
    /\ emitted.sma2 = <<"None", "Buy", "Sell">>

----------------------------------------------------------------------------
(* C27 *)

----------------------------------------------------------------------------
(* C23 *)

\* a policy parameter a trader may run with: finite and above zero
ValidParameter(x) == IsFinite(x) /\ F64Less(Zero, x)

\* C23: no trader is constructed with a stake size or a fee whose parameter is
\* non-positive or non-finite: its constructor rejects such a policy.
C23_InvalidPolicyRejected ==
    trader # "none" =>
        /\ ValidParameter(policy.stake_size.value)
        /\ ValidParameter(policy.trading_fee)

----------------------------------------------------------------------------
(* C24 *)

\* one run on its own: the state it is in after initialise_account and the given
\* inputs of its own trader and indicator, over the bar sequence ks
RECURSIVE RunAlone(_, _)
RunAlone(ks, inputs) ==
    IF inputs = <<>>
    THEN IF ks = <<>>
         THEN Task("done", 0, "Err", FALSE, FALSE)
         ELSE Task("trader", 0, "none", TRUE, FALSE)
    ELSE LET before == RunAlone(ks, SubSeq(inputs, 1, Len(inputs) - 1))
             x == inputs[Len(inputs)]
         IN  IF before.pc = "trader"
             THEN IF x = "ok"
                  THEN Task("bar", 1, "none", TRUE, TRUE)
                  ELSE Task("done", 0, "Err", TRUE, FALSE)
             ELSE IF before.pc = "bar"
             THEN IF x = "missing"
                  THEN [before EXCEPT !.pc = "done", !.outcome = "Err"]
                  ELSE IF before.idx < Len(ks)
                  THEN [before EXCEPT !.idx = @ + 1]
                  ELSE [before EXCEPT !.pc = "done", !.outcome = "Ok"]
             ELSE before

\* C24: the runs share only the bar sequence, which no step changes: under every
\* interleaving each run is where it would be had it run alone over the same bars
\* with what its own trader and indicator gave it, so its final outcome does not
\* depend on the interleaving.  (Every run starts unspawned with nothing given; the
\* property follows each step of a run from there.)
C24_RunsAsIfAlone ==
    [][/\ klines' = klines
       /\ \A s \in Names :
              (tasks'[s] # tasks[s] \/ task_inputs'[s] # task_inputs[s]) =>
                  IF tasks'[s].pc \in {"unspawned", "account"}
                  THEN task_inputs'[s] = <<>>
                  ELSE tasks'[s] = RunAlone(klines, task_inputs'[s])]_vars

\* five ended runs over two bars: DCA returned its account before any other run
\* ended, MACD failed at its second bar, SMA2 never got its trader
C24_EndedOutOfOrder ==
    /\ Len(klines) = 2
    /\ \A s \in Names : tasks[s].pc = "done"
    /\ first_done = "DCA"
    /\ task_inputs["DCA"] = <<"ok", "signal", "signal">>
    /\ tasks["DCA"].outcome = "Ok"
    /\ task_inputs["MACD"] = <<"ok", "signal", "missing">>
    /\ task_inputs["SMA2"] = <<"fail">>

----------------------------------------------------------------------------
(* C25 *)

FeeOf(c) == c.fee

\* the quantity held before the i-th call
QuantityBefore(i) ==
    F64Sub(F64Add(init_args.position.quantity,
                  SumOver(SubSeq(calls, 1, i - 1), "open", QuantityOf)),
           SumOver(SubSeq(calls, 1, i - 1), "close", QuantityOf))

\* some open was made with a quantity that cancels the quantity held
ZeroCombinedOpen ==
    \E i \in 1..Len(calls) :
        calls[i].op = "open" /\ F64Add(QuantityBefore(i), calls[i].quantity) = Zero

\* C25: as long as no open had a zero combined quantity, the realised profit of the
\* last snapshot is the change of the fund, plus the change of the cost value of the
\* position (quantity * cost), plus all fees charged: the fees leave the fund and
\* are never counted in the realised profit.
C25_AccountingConservation ==
    ~ZeroCombinedOpen =>
        Last(profit_and_loss_history).realised_pnl =
            F64Add(F64Add(F64Sub(available_fund, init_args.fund),
                          F64Sub(F64Mul(position.quantity, position.cost),
                                 F64Mul(init_args.position.quantity,
                                        init_args.position.cost))),
                   F64Add(SumOver(calls, "open", FeeOf), SumOver(calls, "close", FeeOf)))

\* bought 100 at 10, sold 50 at 20 for a realised profit of 500, then valued
C25_ProfitAfterFees ==
    /\ init_args.position.quantity = Zero
    /\ Len(calls) = 3
    /\ calls[1].op = "open" /\ calls[1].quantity = Num(100) /\ calls[1].price = Num(10)
    /\ calls[2].op = "close" /\ calls[2].quantity = Num(50) /\ calls[2].price = Num(20)
    /\ calls[3].op = "mark_to_market"
    /\ Last(profit_and_loss_history).realised_pnl = Num(500)

----------------------------------------------------------------------------
(* C26 *)

\* the Sell trades of a trade history
Sells(h) == {i \in 1..Len(h) : h[i].buy_sell_indicator = "Sell"}

\* C26: after a run that processed all n bars the trade history has at most n trades
\* and the valuation history exactly 1 + n + (number of Sell trades) snapshots, the
\* last one being the valuation of the last bar.
C26_HistorySizesAfterRun ==
    (pc = "done" /\ outcome = "Ok") =>
        LET n == Len(klines)
            last_pnl == Last(profit_and_loss_history)
        IN  /\ Len(trade_history) <= n
            /\ Len(profit_and_loss_history) = 1 + n + Cardinality(Sells(trade_history))
            /\ last_pnl.timestamp = klines[n].end_time
            /\ last_pnl.unrealised_pnl =
                   F64Mul(position.quantity, F64Sub(klines[n].close, position.cost))
            /\ last_pnl.realised_pnl =
                   profit_and_loss_history[Len(profit_and_loss_history) - 1].realised_pnl

\* a finished run of two bars that bought at the first and sold everything at the
\* second: two trades, four snapshots
C26_BoughtThenSoldOut ==
    /\ pc = "done" /\ outcome = "Ok"
    /\ Len(klines) = 2
    /\ Len(trade_history) = 2
    /\ trade_history[1].buy_sell_indicator = "Buy"
    /\ trade_history[2].buy_sell_indicator = "Sell"
    /\ Len(profit_and_loss_history) = 4

====
